---- MODULE Spec2Model ----
\* A model of RoadTool (src/trafficTool.py): the partition of a time range into
\* windows of at most 99 hours, the transport with its retry loop, the fetch
\* loop that normalizes each response into per-sensor series, and the
\* re-indexing of the series into an hour -> sensor -> {volume, lat, lon} grid.
\*
\* Time is counted in half-hour ticks, so that instants off the hour exist.
\* Python's None and JSON's null are the empty tuple None; a present value v is
\* the one-element tuple Some(v). A Python dict is a function whose DOMAIN is
\* its key set.
EXTENDS Integers, Sequences, FiniteSets, TLC

VARIABLES
    pc,                         \* where the modelled call stands
    args,                       \* the arguments the caller passed
    start, stop,                \* the range, as the code holds it
    trafficRegistrationPoints,  \* the sensor list (dicts id, lat, lon)
    divisions,                  \* the windows
    t, start_step, t_count,     \* the partition loop's locals
    m, n,                       \* the fetch loop's window and sensor index
    trafficVolumeByHour,        \* sensor id -> list of hourly records
    result,                     \* what the call returned (None until it returns)
    error,                      \* what the call raised
    requests,                   \* history: request() calls issued so far
    used,                       \* history: edges the service has sent so far
    last,                       \* history: the last request and its response
    wellFormed,                 \* history: ids with a response parsed to its end
    returnedData,               \* history: ids a response carried a record for
    net,                        \* the network's behaviour for one request() call
    outcome                     \* what that request() call did

vars == <<pc, args, start, stop, trafficRegistrationPoints, divisions,
          t, start_step, t_count, m, n,
          trafficVolumeByHour, result, error, requests, used, last,
          wellFormed, returnedData, net, outcome>>

\* ---------------------------------------------------------------- bounds
MaxSpan == 400      \* longest range passed to the partitioner, in ticks
MaxVolume == 1      \* largest hourly volume the service reports
MaxRecords == 2     \* hourly records the service sends during one run
MaxTimeouts == 12   \* read timeouts in a row the network can produce

\* ------------------------------------------------------------ primitives
None == <<>>
Some(v) == <<v>>
IsNone(x) == Len(x) = 0
Get(x) == x[1]

EmptyDict == [k \in {} |-> None]
\* d[k] = v of a Python dict: the key is created or overwritten.
SetItem(d, k, v) == (k :> v) @@ d

Min(a, b) == IF a <= b THEN a ELSE b
SetMax(S) == CHOOSE x \in S : \A y \in S : y <= x

\* timedelta(hours=1), in ticks
dt == 2
\* timedelta(hours=99)
query_hour_limit == 99 * dt

NoError == [stage |-> "none", kind |-> "none", code |-> 0]
Raised(stage, kind, code) == [stage |-> stage, kind |-> kind, code |-> code]

\* ------------------------------------------------- the window partitioner
\* The test with > for >=: windows of 100 hours.
WindowFullOffByOne(count) == count > query_hour_limit

\* `if t_count >= query_hour_limit`
WindowFull(count) == count >= query_hour_limit

\* ------------------------------------------------------------ the transport
\* What the network does during one request() call: `timeouts` attempts in a
\* row end in requests.exceptions.ReadTimeout, and the next attempt ends as
\* `then` says: in another exception of requests.post (exc), or in a response
\* with a status code and a body.
Exceptions == {"requests.ConnectionError", "requests.ConnectTimeout"}
StatusCodes == {200, 404, 500}
NetThen(bodies) ==
    {[exc |-> e, status |-> 0, body |-> None] : e \in Exceptions}
    \cup {[exc |-> "none", status |-> s, body |-> None] : s \in StatusCodes \ {200}}
    \cup {[exc |-> "none", status |-> 200, body |-> Some(b)] : b \in bodies}
Nets(counts, bodies) ==
    {[timeouts |-> k, then |-> f] : k \in counts, f \in NetThen(bodies)}

\* `attempts = 10`
attempts_init == 10

\* The loop condition with >= for >: an eleventh attempt.
KeepTryingOffByOne(attempts) == attempts >= 0

\* `while attempts > 0`
KeepTrying(attempts) == attempts > 0

\* No test of the status at all.
StatusOkAny(status_code) == TRUE

\* `response.status_code != 200`, negated
StatusOk(status_code) == status_code = 200

\* The while loop around requests.post: a ReadTimeout costs one attempt, any
\* other exception leaves the loop and the function, a response breaks out.
RECURSIVE RetryLoop(_, _, _, _)
RetryLoop(attempts, issued, k, then) ==
    IF KeepTrying(attempts)
    THEN IF k > 0
         THEN RetryLoop(attempts - 1, issued + 1, k - 1, then)
         ELSE IF then.exc # "none"
              THEN [attempts |-> attempts, issued |-> issued + 1,
                    raised |-> then.exc, response |-> None]
              ELSE [attempts |-> attempts, issued |-> issued + 1,
                    raised |-> "none",
                    response |-> Some([status_code |-> then.status, body |-> then.body])]
    ELSE [attempts |-> attempts, issued |-> issued, raised |-> "none", response |-> None]

\* RoadTool.request: the loop, then the two checks after it.
request(nw) ==
    LET r == RetryLoop(attempts_init, 0, nw.timeouts, nw.then)
    IN  IF r.raised # "none"
        THEN [issued |-> r.issued, error |-> Raised("request", r.raised, 0), response |-> None]
        ELSE IF r.attempts <= 0
        THEN [issued |-> r.issued, error |-> Raised("request", "ReadTimeout", 0), response |-> None]
        ELSE IF ~StatusOk(Get(r.response).status_code)
        THEN [issued |-> r.issued,
              error |-> Raised("request", "ConnectionError", Get(r.response).status_code),
              response |-> None]
        ELSE [issued |-> r.issued, error |-> NoError, response |-> r.response]

\* ------------------------------------------------------ time serialization
\* A timestamp string is the pair <<local time, offset>>.
datetime_to_string(datetime_object) == <<datetime_object, "+02:00">>
\* string[:-6] drops the offset and the rest is parsed as it stands.
string_to_datetime(string) == string[1]

\* ------------------------------------------------------- response payloads
Volumes == {None} \cup {Some(v) : v \in 0 .. MaxVolume}

\* One entry of "edges": a node with all its levels, or a node one level of
\* which is null (total: null, volumeNumbers: null, ...), or a node one key
\* of which is missing.
NodeEdge(h, v) ==
    [kind |-> "node", from |-> datetime_to_string(h), to |-> datetime_to_string(h + dt),
     volume |-> v, coverage |-> 100]
NullEdge == [kind |-> "null", from |-> None, to |-> None, volume |-> None, coverage |-> 0]
MissingEdge == [kind |-> "missing", from |-> None, to |-> None, volume |-> None, coverage |-> 0]

\* The nodes the service may send for the window starting at from_str: its
\* first two hours, with any volume.
NodeChoices(from_str) ==
    {NodeEdge(h, v) : h \in {from_str[1], from_str[1] + dt}, v \in Volumes}
\* The loop over the edges stops at the first broken node, so a body's edges
\* are nodes, then at most one broken node: what follows it is never read.
Tails == {<<>>, <<NullEdge>>, <<MissingEdge>>}

SeqsUpTo(S, k) == UNION {[1 .. j -> S] : j \in 0 .. k}

\* A body: not JSON at all, a level on the way to "edges" null, a key on the
\* way missing, or the edge list.
NotJsonBody == [kind |-> "notjson", edges |-> <<>>]
NullBody == [kind |-> "null", edges |-> <<>>]
MissingBody == [kind |-> "missing", edges |-> <<>>]
EdgesBody(es) == [kind |-> "edges", edges |-> es]
Bodies(from_str, budget) ==
    {NotJsonBody, NullBody, MissingBody}
    \cup {EdgesBody(es \o tail) : es \in SeqsUpTo(NodeChoices(from_str), budget),
                                   tail \in Tails}

\* ------------------------------------------------------------ normalization
\* The for loop over the edges: each node becomes an element; subscripting
\* None raises TypeError, a missing key raises KeyError.
RECURSIVE NormalizeLoop(_, _, _)
NormalizeLoop(edges, k, temp_list) ==
    IF k > Len(edges)
    THEN [raised |-> "none", temp_list |-> temp_list]
    ELSE LET j == edges[k]
         IN  IF j.kind = "null" THEN [raised |-> "TypeError", temp_list |-> temp_list]
             ELSE IF j.kind = "missing" THEN [raised |-> "KeyError", temp_list |-> temp_list]
             ELSE NormalizeLoop(edges, k + 1,
                      Append(temp_list,
                             [start |-> string_to_datetime(j.from),
                              stop |-> string_to_datetime(j.to),
                              volume |-> j.volume,
                              coverage |-> j.coverage]))

\* response.json()[...]["edges"] and the loop over it.
Normalize(body) ==
    IF body.kind = "notjson" THEN [raised |-> "JSONDecodeError", temp_list |-> <<>>]
    ELSE IF body.kind = "null" THEN [raised |-> "TypeError", temp_list |-> <<>>]
    ELSE IF body.kind = "missing" THEN [raised |-> "KeyError", temp_list |-> <<>>]
    ELSE NormalizeLoop(body.edges, 1, <<>>)

\* The else branch, were it to create a key only for a non-empty list.
AccumulateNonEmpty(series, i, temp_list) ==
    IF i \in DOMAIN series
    THEN [series EXCEPT ![i] = @ \o temp_list]
    ELSE IF temp_list = <<>> THEN series ELSE SetItem(series, i, temp_list)

\* The else branch of the try: extend the sensor's list, or create it.
Accumulate(series, i, temp_list) ==
    IF i \in DOMAIN series
    THEN [series EXCEPT ![i] = @ \o temp_list]
    ELSE SetItem(series, i, temp_list)

\* `except TypeError: pass`
CatchesError(raised) == raised = "TypeError"

\* The try statement, were the records parsed before a TypeError kept.
AfterTryKeepsPartial(series, i, norm) ==
    IF norm.raised \in {"none", "TypeError"}
    THEN Accumulate(series, i, norm.temp_list)
    ELSE series

\* What the try statement leaves in the series: the else branch runs only
\* when the loop raised nothing; `pass` leaves the series as it was.
AfterTry(series, i, norm) ==
    IF norm.raised = "none"
    THEN Accumulate(series, i, norm.temp_list)
    ELSE series

\* -------------------------------------------------------- the time index
\* replace(microsecond=0, second=0, minute=0)
FloorHour(time) == (time \div dt) * dt

\* The loop condition with <= for <: the hour at stop gets a key.
GridContinuesOffByOne(h, stop_) == h <= stop_

\* `while t < stop` of the grid loop
GridContinues(h, stop_) == h < stop_

\* t = start; while t < stop: sortedTrafficVolumeByHour[t] = {}; t += dt.
\* The loop visits start, start + dt, ... for as long as its condition holds,
\* so its keys are the instants start + k * dt that satisfy the condition.
GridLoop(start_, stop_) ==
    LET steps == IF stop_ >= start_ THEN (stop_ - start_) \div dt + 1 ELSE 0
        keys == {h \in {start_ + k * dt : k \in 0 .. steps} : GridContinues(h, stop_)}
    IN  [h \in keys |-> EmptyDict]

\* max_volume = j["volume"]: the last volume, not the largest.
PyMaxLast(a, b) == b

\* The comparison turned round: the smaller of the two.
PyMin(a, b) == IF b < a THEN b ELSE a

\* max(a, b) of two ints
PyMax(a, b) == IF b > a THEN b ELSE a

\* The inner loop over one sensor's records: the subscript of the grid by
\* j["start"] raises KeyError off the grid, the entry is stored, and max()
\* of an int and None raises TypeError. acc is [sorted, max_volume, raised].
RECURSIVE IndexRecords(_, _, _, _)
IndexRecords(i, records, k, acc) ==
    IF k > Len(records) \/ acc.raised # "none"
    THEN acc
    ELSE LET j == records[k]
         IN  IF j.start \notin DOMAIN acc.sorted
             THEN [acc EXCEPT !.raised = "KeyError"]
             ELSE LET sorted1 ==
                          [acc.sorted EXCEPT ![j.start] =
                              SetItem(@, i.id, [volume |-> j.volume, lat |-> i.lat, lon |-> i.lon])]
                  IN  IF IsNone(j.volume)
                      THEN [acc EXCEPT !.sorted = sorted1, !.raised = "TypeError"]
                      ELSE IndexRecords(i, records, k + 1,
                               [acc EXCEPT !.sorted = sorted1,
                                           !.max_volume = PyMax(@, Get(j.volume))])

\* The outer loop over the sensor list: only sensors with a key in the series.
RECURSIVE IndexSensors(_, _, _, _)
IndexSensors(points, k, series, acc) ==
    IF k > Len(points) \/ acc.raised # "none"
    THEN acc
    ELSE LET i == points[k]
         IN  IndexSensors(points, k + 1, series,
                 IF i.id \in DOMAIN series
                 THEN IndexRecords(i, series[i.id], 1, acc)
                 ELSE acc)

\* Lines 261-281 of get_traffic_volume_by_hour: the grid, max_volume = 0, the
\* two loops.
BuildIndex(points, series, start_, stop_) ==
    IndexSensors(points, 1, series,
        [sorted |-> GridLoop(start_, stop_), max_volume |-> 0, raised |-> "none"])

\* ------------------------------------------------------------- the inputs
SensorA == [id |-> "A", lat |-> 10, lon |-> 10]
SensorB == [id |-> "B", lat |-> 20, lon |-> 20]
\* [i["id"] for i in trafficRegistrationPoints]
IdsOf(points) == [k \in 1 .. Len(points) |-> points[k].id]

\* The calls of the pipeline: no sensor, one or two; in ticks, from 00:30 to
\* 00:00 (an empty range once floored), to 01:30 (one window of one hour) and
\* to 100:30 (100 hours, two windows).
SensorLists == {<<>>, <<SensorA>>, <<SensorA, SensorB>>}
RawStarts == {1}
RawStops == {0, dt + 1, query_hour_limit + dt + 1}
Calls ==
    {[points |-> p, start |-> a, stop |-> b] :
        p \in SensorLists, a \in RawStarts, b \in RawStops}
\* The ranges the partitioner is given: every span up to MaxSpan, from the
\* hour and from the half hour.
PartitionStarts == {0, 1}

\* The network during the pipeline's requests: an answer at the first
\* attempt, with any body when the status is 200, or read timeouts until the
\* attempts run out (what the eleventh attempt would bring is never seen).
PipelineNets(bodies) ==
    Nets({0}, bodies)
    \cup {[timeouts |-> attempts_init,
           then |-> [exc |-> "none", status |-> 200, body |-> Some(NullBody)]]}

\* --------------------------------------------------------------- actions
Idle ==
    /\ args = None /\ start = 0 /\ stop = 0
    /\ trafficRegistrationPoints = <<>> /\ divisions = <<>>
    /\ t = 0 /\ start_step = 0 /\ t_count = 0
    /\ m = 1 /\ n = 1
    /\ trafficVolumeByHour = EmptyDict
    /\ result = None /\ error = NoError
    /\ requests = 0 /\ used = 0 /\ last = None
    /\ wellFormed = {} /\ returnedData = {}
    /\ net = None /\ outcome = None

Init == pc = "idle" /\ Idle

\* get_traffic_volume_by_hour up to the partition loop: both instants are
\* floored to the hour and query_traffic_volume_by_hour starts on the range.
GetTrafficVolumeByHour ==
    /\ pc = "idle"
    /\ \E call \in Calls :
          /\ args' = Some(call)
          /\ start' = FloorHour(call.start)
          /\ stop' = FloorHour(call.stop)
          /\ trafficRegistrationPoints' = call.points
          /\ t' = FloorHour(call.start)
          /\ start_step' = FloorHour(call.start)
    /\ t_count' = 0
    /\ divisions' = <<>>
    /\ pc' = "partition"
    /\ UNCHANGED <<m, n, trafficVolumeByHour, result, error, requests, used, last,
                   wellFormed, returnedData, net, outcome>>

\* One pass of `while t < stop`: a window is closed when the accumulated span
\* has reached the limit, then t and t_count advance by dt.
PartitionStep ==
    /\ pc = "partition" /\ t < stop
    /\ IF WindowFull(t_count)
       THEN /\ divisions' = Append(divisions, <<start_step, t>>)
            /\ start_step' = t
            /\ t_count' = 0 + dt
       ELSE /\ UNCHANGED <<divisions, start_step>>
            /\ t_count' = t_count + dt
    /\ t' = t + dt
    /\ UNCHANGED <<pc, args, start, stop, trafficRegistrationPoints, m, n,
                   trafficVolumeByHour, result, error, requests, used, last, wellFormed,
                   returnedData, net, outcome>>

\* The loop's exit and `if start_step != t`: the last window; the fetch loop
\* starts with an empty series.
PartitionEnd ==
    /\ pc = "partition" /\ ~(t < stop)
    /\ divisions' = IF start_step # t THEN Append(divisions, <<start_step, t>>) ELSE divisions
    /\ m' = 1 /\ n' = 1
    /\ trafficVolumeByHour' = EmptyDict
    /\ pc' = "fetch"
    /\ UNCHANGED <<args, start, stop, trafficRegistrationPoints, t, start_step, t_count,
                   result, error, requests, used, last, wellFormed, returnedData, net,
                   outcome>>

Nodes(body) == Cardinality({k \in DOMAIN body.edges : body.edges[k].kind = "node"})

LoopDone == Len(trafficRegistrationPoints) = 0 \/ m > Len(divisions)

\* One pass of the inner loop: the request for window m and sensor n, the
\* parse of its response, and the accumulation into the series. An exception
\* of request() or an uncaught one of the parse leaves both functions.
FetchOne ==
    /\ pc = "fetch" /\ ~LoopDone
    /\ LET i == IdsOf(trafficRegistrationPoints)[n]
           start_str == datetime_to_string(divisions[m][1])
       IN  \E nw \in PipelineNets(Bodies(start_str, MaxRecords - used)) :
              LET r == request(nw)
                  sent == r.error = NoError
                  body == IF sent THEN Get(r.response).body ELSE None
                  norm == IF IsNone(body) THEN [raised |-> "none", temp_list |-> <<>>]
                          ELSE Normalize(Get(body))
                  ok == sent /\ norm.raised = "none"
                  caught == sent /\ CatchesError(norm.raised)
                  series1 == IF sent THEN AfterTry(trafficVolumeByHour, i, norm)
                             ELSE trafficVolumeByHour
              IN  /\ last' = Some([id |-> i, m |-> m, n |-> n, net |-> nw,
                                   raised |-> norm.raised])
                  /\ requests' = requests + 1
                  /\ used' = used + (IF IsNone(nw.then.body) THEN 0
                                     ELSE Nodes(Get(nw.then.body)))
                  /\ wellFormed' = IF ok THEN wellFormed \cup {i} ELSE wellFormed
                  /\ returnedData' =
                         IF sent /\ ~IsNone(body) /\ Nodes(Get(body)) > 0
                         THEN returnedData \cup {i} ELSE returnedData
                  /\ trafficVolumeByHour' = series1
                  /\ IF ok \/ caught
                     THEN /\ pc' = "fetch"
                          /\ error' = error
                          /\ IF n < Len(trafficRegistrationPoints)
                             THEN n' = n + 1 /\ m' = m
                             ELSE n' = 1 /\ m' = m + 1
                     ELSE /\ pc' = "raised"
                          /\ error' = IF ~sent THEN r.error
                                      ELSE Raised("normalize", norm.raised, 0)
                          /\ UNCHANGED <<m, n>>
    /\ UNCHANGED <<args, start, stop, trafficRegistrationPoints, divisions, t, start_step,
                   t_count, result, net, outcome>>

\* The rest of get_traffic_volume_by_hour, once the fetch loop has returned
\* the series: the grid and the re-indexing.
BuildTimeIndex ==
    /\ pc = "fetch" /\ LoopDone
    /\ LET r == BuildIndex(trafficRegistrationPoints, trafficVolumeByHour, start, stop)
       IN  IF r.raised = "none"
           THEN /\ pc' = "returned"
                /\ result' = Some([sortedTrafficVolumeByHour |-> r.sorted,
                                   max_volume |-> r.max_volume])
                /\ error' = error
           ELSE /\ pc' = "raised"
                /\ result' = result
                /\ error' = Raised("index", r.raised, 0)
    /\ UNCHANGED <<args, start, stop, trafficRegistrationPoints, divisions, t, start_step,
                   t_count, m, n, trafficVolumeByHour, requests, used, last, wellFormed,
                   returnedData, net, outcome>>

Next ==
    \/ GetTrafficVolumeByHour
    \/ PartitionStep
    \/ PartitionEnd
    \/ FetchOne
    \/ BuildTimeIndex

Spec == Init /\ [][Next]_vars

\* The partitioner alone, on any start <= stop: query_traffic_volume_by_hour
\* takes the range as its caller passes it.
InitPartition ==
    /\ pc = "partition"
    /\ \E a \in PartitionStarts : \E b \in a .. a + MaxSpan :
          /\ start = a /\ stop = b
          /\ t = a /\ start_step = a
          /\ args = Some([points |-> <<>>, start |-> a, stop |-> b])
    /\ t_count = 0
    /\ trafficRegistrationPoints = <<>> /\ divisions = <<>>
    /\ m = 1 /\ n = 1
    /\ trafficVolumeByHour = EmptyDict
    /\ result = None /\ error = NoError
    /\ requests = 0 /\ used = 0 /\ last = None
    /\ wellFormed = {} /\ returnedData = {}
    /\ net = None /\ outcome = None

NextPartition == PartitionStep \/ PartitionEnd

SpecPartition == InitPartition /\ [][NextPartition]_vars

\* One call of request(), against every behaviour of the network.
InitRequest ==
    /\ pc = "request"
    /\ \E nw \in Nets(0 .. MaxTimeouts, {NullBody}) : net = Some(nw)
    /\ args = None /\ start = 0 /\ stop = 0
    /\ trafficRegistrationPoints = <<>> /\ divisions = <<>>
    /\ t = 0 /\ start_step = 0 /\ t_count = 0
    /\ m = 1 /\ n = 1
    /\ trafficVolumeByHour = EmptyDict
    /\ result = None /\ error = NoError
    /\ requests = 0 /\ used = 0 /\ last = None
    /\ wellFormed = {} /\ returnedData = {}
    /\ outcome = None

Request ==
    /\ pc = "request"
    /\ outcome' = Some(request(Get(net)))
    /\ pc' = "requested"
    /\ UNCHANGED <<args, start, stop, trafficRegistrationPoints, divisions, t, start_step,
                   t_count, m, n, trafficVolumeByHour, result, error, requests, used, last,
                   wellFormed, returnedData, net>>

NextRequest == Request

SpecRequest == InitRequest /\ [][NextRequest]_vars

\* ================================================================ claims
\* ---------------------------------------------------------------- C1
Partitioned == pc = "fetch"

\* The windows are chronologically ordered and none is empty, each stops where
\* the next starts, none spans more than 99 hours, and together they run from
\* a to b; for a = b there is none.
Covers(divs, a, b) ==
    /\ \A k \in 1 .. Len(divs) : divs[k][1] < divs[k][2]
    /\ \A k \in 1 .. Len(divs) - 1 : divs[k][2] = divs[k + 1][1]
    /\ \A k \in 1 .. Len(divs) : divs[k][2] - divs[k][1] <= 99 * dt
    /\ IF a = b
       THEN divs = <<>>
       ELSE divs # <<>> /\ divs[1][1] = a /\ divs[Len(divs)][2] = b

\* The first instant start + k hours that is not before stop.
FirstStepFrom(a, b) == a + ((b - a + dt - 1) \div dt) * dt

\* C1 as stated: for every start <= stop the windows of the partitioner are
\* ordered, contiguous, non-empty, at most 99 hours long, and run from start
\* exactly to stop (none when start = stop).
C1_PartitionCoversAnyRange ==
    (Partitioned /\ start <= stop) => Covers(divisions, start, stop)

\* C1 as amended: for every start <= stop the windows are ordered, contiguous,
\* non-empty and at most 99 hours long, the first starts at start and the last
\* stops at the first instant start + k hours that is not before stop: exactly
\* at stop when stop - start is a whole number of hours, past it otherwise.
C1_PartitionCoversWholeHours ==
    (Partitioned /\ start <= stop) =>
        /\ Covers(divisions, start, FirstStepFrom(start, stop))
        /\ ((stop - start) % dt = 0 => Covers(divisions, start, stop))

\* A range of whole hours cut into three windows, the last one shorter.
C1_Witness ==
    /\ Partitioned /\ start <= stop /\ (stop - start) % dt = 0
    /\ Len(divisions) = 3
    /\ divisions[3][2] - divisions[3][1] < 99 * dt
    /\ divisions[3][2] = stop

Returned == pc = "returned"
Aggregate == Get(result).sortedTrafficVolumeByHour

\* The hours from the floor of a up to, not including, the floor of b.
HourGrid(a, b) == {h \in (a - (a % dt)) .. ((b - (b % dt)) - 1) : h % dt = 0}

HasRecordAt(series, id, h) ==
    id \in DOMAIN series /\ \E k \in DOMAIN series[id] : series[id][k].start = h

\* C3: when get_traffic_volume_by_hour returns, the keys of the aggregate are
\* exactly the hours from the floored start up to the floored stop, whatever
\* the sensors reported, and an hour no sensor has a record for maps to {}.
C3_DenseGrid ==
    Returned =>
        /\ DOMAIN Aggregate = HourGrid(Get(args).start, Get(args).stop)
        /\ \A h \in DOMAIN Aggregate :
              (\A id \in DOMAIN trafficVolumeByHour :
                   ~HasRecordAt(trafficVolumeByHour, id, h))
              => Aggregate[h] = EmptyDict

\* A grid of 100 hours, one of them with an entry and all others empty, from
\* arguments off the hour.
C3_Witness ==
    /\ Returned
    /\ Get(args).start % dt # 0 /\ Get(args).stop % dt # 0
    /\ Cardinality(DOMAIN Aggregate) = 100
    /\ \E h \in DOMAIN Aggregate : Aggregate[h] # EmptyDict
    /\ \E h \in DOMAIN Aggregate : Aggregate[h] = EmptyDict

\* ---------------------------------------------------------------- C4
\* The volumes of all records of the series: each was inserted.
InsertedVolumes(series) ==
    UNION {{Get(series[id][k].volume) : k \in DOMAIN series[id]} : id \in DOMAIN series}

\* C4: the max_volume returned is the largest volume among the records
\* inserted into the aggregate, and 0 when none was inserted.
C4_MaxCorrect ==
    Returned =>
        Get(result).max_volume =
            IF InsertedVolumes(trafficVolumeByHour) = {} THEN 0
            ELSE SetMax(InsertedVolumes(trafficVolumeByHour))

\* The largest volume is not the last one inserted.
C4_Witness ==
    /\ Returned
    /\ Get(result).max_volume = 1
    /\ "A" \in DOMAIN trafficVolumeByHour
    /\ Len(trafficVolumeByHour["A"]) = 2
    /\ trafficVolumeByHour["A"][2].volume = Some(0)
    /\ "B" \notin DOMAIN trafficVolumeByHour

\* ---------------------------------------------------------------- C5
\* The last request ended in a fatal transport error: the read timeouts used
\* up the attempts, or the response's status was not 200.
LastRequestFailed ==
    /\ last # None
    /\ \/ Get(last).net.timeouts >= 10
       \/ Get(last).net.then.exc = "none" /\ Get(last).net.then.status # 200

\* C5: a request of the fetch loop that ends in ReadTimeout or in a status
\* other than 200 ends the run there: the error is raised, nothing is
\* returned, the requests issued are those up to the failing pair, and no step
\* follows.
C5_FatalErrorAborts ==
    /\ [](LastRequestFailed =>
            /\ pc = "raised"
            /\ error.stage = "request"
            /\ error.kind \in {"ReadTimeout", "ConnectionError"}
            /\ result = None
            /\ requests = (Get(last).m - 1) * Len(trafficRegistrationPoints) + Get(last).n)
    /\ [][pc # "raised"]_vars

\* The third of four requests times out, after data was accumulated.
C5_Witness ==
    /\ LastRequestFailed
    /\ error.kind = "ReadTimeout"
    /\ requests = 3
    /\ Len(divisions) * Len(trafficRegistrationPoints) = 4
    /\ \E id \in DOMAIN trafficVolumeByHour : trafficVolumeByHour[id] # <<>>

\* ---------------------------------------------------------------- C6
LastBody == Get(last).net.then.body
LastAnswered ==
    /\ last # None
    /\ Get(last).net.timeouts = 0
    /\ Get(last).net.then.exc = "none" /\ Get(last).net.then.status = 200

\* A level of the expected structure is null or a key of it is missing.
Broken(body) ==
    \/ body.kind \in {"null", "missing"}
    \/ \E k \in DOMAIN body.edges : body.edges[k].kind \in {"null", "missing"}

\* C6 as stated: a response whose structure is broken at any level, by a null
\* level or by a missing key, is normalized to no records and raises nothing:
\* the fetch loop goes on.
C6_AbsentDataNeverRaises ==
    (LastAnswered /\ Broken(Get(LastBody))) =>
        /\ error.stage # "normalize"
        /\ Get(last).raised \in {"none", "TypeError"}

\* ---------------------------------------------------------------- C7
Orders(seq) ==
    {p \in [DOMAIN seq -> DOMAIN seq] : \A a, b \in DOMAIN seq : a # b => p[a] # p[b]}
Reordered(seq) == {[k \in DOMAIN seq |-> seq[p[k]]] : p \in Orders(seq)}
\* Every series with the same records per sensor, in any order.
Reorderings(series) ==
    {s2 \in [DOMAIN series -> UNION {Reordered(series[id]) : id \in DOMAIN series}] :
        \A id \in DOMAIN series : s2[id] \in Reordered(series[id])}

NoDuplicateHour(series) ==
    \A id \in DOMAIN series : \A a, b \in DOMAIN series[id] :
        a # b => series[id][a].start # series[id][b].start

\* C7: with no two records for the same sensor and hour, the aggregate and
\* the max_volume returned are those of every other order of the records in
\* the per-sensor series.
C7_OrderIndependent ==
    (Returned /\ NoDuplicateHour(trafficVolumeByHour)) =>
        \A s2 \in Reorderings(trafficVolumeByHour) :
            LET r == BuildIndex(trafficRegistrationPoints, s2, start, stop)
            IN  /\ r.raised = "none"
                /\ r.sorted = Aggregate
                /\ r.max_volume = Get(result).max_volume

\* A sensor with two records of different hours and volumes, from two windows.
C7_Witness ==
    /\ Returned /\ NoDuplicateHour(trafficVolumeByHour)
    /\ \E id \in DOMAIN trafficVolumeByHour :
          /\ Len(trafficVolumeByHour[id]) = 2
          /\ trafficVolumeByHour[id][1].volume # trafficVolumeByHour[id][2].volume
          /\ trafficVolumeByHour[id][2].start - trafficVolumeByHour[id][1].start > dt

\* ---------------------------------------------------------------- C8
IndexRan == Returned \/ (pc = "raised" /\ error.stage = "index")

AllOnGrid(series) ==
    \A id \in DOMAIN series : \A k \in DOMAIN series[id] :
        series[id][k].start \in HourGrid(start, stop)

\* C8 as stated: with every record on the grid, the re-indexing returns, and
\* (hour, sensor) has an entry exactly when the series holds a record of that
\* sensor and hour with a concrete volume; a record without a volume adds no
\* entry and does not make the re-indexing fail.
C8_OnlyConcreteVolumes ==
    (IndexRan /\ AllOnGrid(trafficVolumeByHour)) =>
        /\ Returned
        /\ \A h \in DOMAIN Aggregate : \A id \in DOMAIN trafficVolumeByHour :
              (id \in DOMAIN Aggregate[h]) <=>
                  \E k \in DOMAIN trafficVolumeByHour[id] :
                      /\ trafficVolumeByHour[id][k].start = h
                      /\ ~IsNone(trafficVolumeByHour[id][k].volume)

\* ---------------------------------------------------------------- C9
\* The last response was dropped as absent data: its parse raised TypeError.
LastAbsent == LastAnswered /\ Get(last).raised = "TypeError"

\* The nodes of a body that come with all their levels.
NodeHours(body) ==
    {string_to_datetime(body.edges[k].from) :
        k \in {j \in DOMAIN body.edges : body.edges[j].kind = "node"}}

AfterLoop == (pc = "fetch" /\ LoopDone) \/ IndexRan

\* C10 as stated: after the fetch loop, a sensor id is a key of the series
\* only if a response carried at least one hourly record for it.
C10_KeyOnlyWithData ==
    AfterLoop => \A id \in DOMAIN trafficVolumeByHour : id \in returnedData

\* C10 as amended: a sensor id is a key of the series exactly when a response
\* for it was parsed to its end, an empty edge list included (the key then
\* holds an empty list); a sensor all of whose responses were dropped as
\* absent data has no key.
C10_KeyIffParsed ==
    DOMAIN trafficVolumeByHour = wellFormed

\* After the loop: one sensor has a key with an empty list, from a response
\* with no edges; the other's only response was dropped and it has no key.
C10_Witness ==
    /\ pc = "fetch" /\ LoopDone
    /\ "A" \in DOMAIN trafficVolumeByHour
    /\ trafficVolumeByHour["A"] = <<>>
    /\ "A" \notin returnedData
    /\ requests = 2
    /\ "B" \notin DOMAIN trafficVolumeByHour
    /\ "B" \in returnedData

====
